---- MODULE Spec2Model ----
(***************************************************************************)
(* Razor bot (razor.py) and the standalone token seller (sell_tokens.py):  *)
(* the retry loop of buy_token / sell_token, endpoint rotation, the        *)
(* buy-then-sell trade cycle, the timed session loop of run with its       *)
(* interrupt / exception / finally exits, and TokenSeller.sell_token       *)
(* driven by sell_all_tokens.                                              *)
(*                                                                         *)
(* The program is sequential; pc is <<function, label>> of the statement   *)
(* about to execute.  The environment is the trade API (one response per   *)
(* request), the wall clock (each read of time.time() returns a value not  *)
(* below the previous one) and the operator's interrupt (KeyboardInterrupt *)
(* delivered between two statements of the session loop).                  *)
(***************************************************************************)
EXTENDS Integers, Sequences, FiniteSets, TLC

(***************************************************************************)
(* Program constants                                                       *)
(***************************************************************************)
MAX_RETRIES == 3

TS_MAX_RETRIES == 5

BUY_AMOUNT_SOL == "0.015"

SOLANA_RPC_ENDPOINTS ==
  << "https://api.mainnet-beta.solana.com",
     "https://solana-api.projectserum.com",
     "https://rpc.ankr.com/solana",
     "https://solana-mainnet.g.alchemy.com/v2/demo",
     "https://mainnet.solana.blockdaemon.tech",
     "https://solana-mainnet.rpc.extrnode.com",
     "https://mainnet.helius-rpc.com/?api-key=1d8740dc-e5f4-421c-b823-e1bad1889eff" >>

(***************************************************************************)
(* Bounds of the model                                                     *)
(***************************************************************************)
\* the session duration is 0 or this many clock ticks
MaxDuration == 1

\* the clock reaches end_time at the latest after this many cycles
MaxCycles == 2

\* largest advance of the clock between two consecutive reads
MaxStep == 1

\* most tokens get_wallet_tokens hands to sell_all_tokens
MaxTokens == 1

\* most consecutive rotations of the rotation harness
MaxRotations == 8

(***************************************************************************)
(* Text: a Python str is a sequence of one-character strings               *)
(***************************************************************************)
T_rpc_timeout == <<"r","p","c"," ","t","i","m","e","o","u","t">>

T_RPC_down == <<"R","P","C"," ","d","o","w","n">>

T_slippage == <<"s","l","i","p">>

T_Unknown_error == <<"U","n","k","n","o","w","n"," ","e","r","r","o","r">>

T_rpc == <<"r","p","c">>

T_timeout == <<"t","i","m","e","o","u","t">>

T_sep == <<",", " ">>

\* str.lower on the letters the texts of this model use
Lower(s) ==
  [i \in DOMAIN s |->
     CASE s[i] = "R" -> "r"
       [] s[i] = "P" -> "p"
       [] s[i] = "C" -> "c"
       [] s[i] = "U" -> "u"
       [] s[i] = "T" -> "t"
       [] OTHER -> s[i]]

\* sub in s
Contains(sub, s) ==
  \E i \in 0..(Len(s) - Len(sub)) : SubSeq(s, i + 1, i + Len(sub)) = sub

\* sep.join(list)
RECURSIVE Join(_, _)
Join(sep, list) ==
  IF list = <<>> THEN <<>>
  ELSE IF Len(list) = 1 THEN list[1]
  ELSE list[1] \o sep \o Join(sep, Tail(list))

IsSpace(c) == c \in {" ", "\t", "\n"}

RECURSIVE LStrip(_)
LStrip(s) == IF s # <<>> /\ IsSpace(s[1]) THEN LStrip(Tail(s)) ELSE s

RECURSIVE RStrip(_)
RStrip(s) ==
  IF s # <<>> /\ IsSpace(s[Len(s)]) THEN RStrip(SubSeq(s, 1, Len(s) - 1)) ELSE s

\* str.strip
Strip(s) == RStrip(LStrip(s))

(***************************************************************************)
(* Python values: None and the dict a JSON body parses to.  A dict is its  *)
(* key set plus the value under each key (a fixed filler under an absent   *)
(* key, never read).                                                       *)
(***************************************************************************)
PyNone ==
  [type |-> "NoneType", keys |-> {}, success |-> FALSE, signature |-> "",
   errors |-> <<>>, error |-> <<>>, amount_out |-> 0]

Dict(keys, success, signature, errors, error, amount_out) ==
  [type |-> "dict", keys |-> keys,
   success |-> IF "success" \in keys THEN success ELSE FALSE,
   signature |-> IF "signature" \in keys THEN signature ELSE "",
   errors |-> IF "errors" \in keys THEN errors ELSE <<>>,
   error |-> IF "error" \in keys THEN error ELSE <<>>,
   amount_out |-> IF "amount_out" \in keys THEN amount_out ELSE 0]

\* JSON null under amount_out, parsed to None (an amount is not negative)
JsonNull == -1

\* str(amount) for the amounts the API reports
StrOfAmount(n) ==
  IF n = 5 THEN "5" ELSE IF n = 0 THEN "0"
  ELSE IF n = JsonNull THEN "None" ELSE "7"

\* the response shapes over success x signature x errors
ShapeBodies ==
  { Dict(ks, s, "abc123", e, <<>>, 0) :
      ks \in SUBSET {"success", "signature", "errors"},
      s \in BOOLEAN,
      e \in {<<>>, <<T_rpc_timeout>>, <<T_slippage>>} }

\* bodies with a single error field, alone or next to an errors list
ErrorFieldBodies ==
  { Dict(ks \cup {"error"}, FALSE, "", <<T_slippage>>, e, 0) :
      ks \in SUBSET {"errors"}, e \in {T_RPC_down, T_slippage} }

\* successful bodies that report the amount received
AmountBodies ==
  { Dict({"success", "amount_out"}, TRUE, "", <<>>, <<>>, 5),
    Dict({"signature", "errors", "amount_out"}, FALSE, "abc123", <<>>, <<>>, 5) }

Bodies == ShapeBodies \cup ErrorFieldBodies \cup AmountBodies

(***************************************************************************)
(* What one POST /trade can do: answer 429, answer a 2xx status with a     *)
(* JSON object, answer another error status (raise_for_status raises       *)
(* HTTPError, a RequestException), fail in transport (RequestException),   *)
(* or answer a 2xx status with JSON that is not an object, on which the    *)
(* success test raises AttributeError / TypeError.                         *)
(***************************************************************************)
Resp(kind, body) == [kind |-> kind, body |-> body]

Responses ==
  { Resp("ok", b) : b \in Bodies }
    \cup { Resp(k, PyNone) : k \in {"429", "httperror", "transport", "notdict"} }

(***************************************************************************)
(* Token identifiers handed to run / sell_token: strings, and for run also *)
(* a value that is not a string (no strip method).                         *)
(***************************************************************************)
NotAString == << "<None>" >>

TokenStrings == { <<" ","T","k","\n">>, <<" "," ">> }

\* mints get_wallet_tokens reports
MintStrings == { <<"T","k">> }

(***************************************************************************)
(* A mock API answers its first requests with canned responses and is      *)
(* unconstrained afterwards; the empty script is the unconstrained API.    *)
(***************************************************************************)
RpcTimeoutBody == Dict({"errors"}, FALSE, "", <<T_rpc_timeout>>, <<>>, 0)

SignatureBody == Dict({"signature", "errors"}, FALSE, "abc123", <<>>, <<>>, 0)

ApiScripts == { <<>>, << Resp("ok", RpcTimeoutBody), Resp("ok", SignatureBody) >> }

\* one response for each branch of the attempt body: success, failure naming
\* rpc, failure naming nothing, 429, error status, transport failure, JSON
\* that is not an object
\* the responses that differ in what they say of the amount received: a
\* success without amount_out, with a null, with 0 and with 5, and a failure
HintResponses ==
  { Resp("ok", Dict({"success"}, TRUE, "", <<>>, <<>>, 0)) }
    \cup { Resp("ok", Dict({"success", "amount_out"}, TRUE, "", <<>>, <<>>, n)) :
              n \in {JsonNull, 0, 5} }
    \cup { Resp("ok", Dict({"errors"}, FALSE, "", <<T_slippage>>, <<>>, 0)) }

ClassResponses ==
  { Resp("ok", Dict({"success", "amount_out"}, TRUE, "", <<>>, <<>>, 5)),
    Resp("ok", RpcTimeoutBody),
    Resp("ok", Dict({"errors"}, FALSE, "", <<T_slippage>>, <<>>, 0)) }
    \cup { Resp(k, PyNone) : k \in {"429", "httperror", "transport", "notdict"} }

(***************************************************************************)
(* Pure helpers of the executor                                            *)
(***************************************************************************)
\* variant of Truthy: every value counts as true
TruthyAlways(v) == TRUE

\* truth value of a Python value: None and the empty dict are false
Truthy(v) == v.type = "dict" /\ v.keys # {}

\* format_token_address: token_address.strip()
format_token_address(token_address) == Strip(token_address)

\* the success test of the retry loop
IsSuccess(data) ==
  \/ ("success" \in data.keys /\ data.success)
  \/ /\ "signature" \in data.keys
     /\ (IF "errors" \in data.keys THEN data.errors ELSE <<>>) = <<>>

\* variant of ErrorMsg: the errors list is not consulted
ErrorMsgFromErrorField(data) ==
  IF "error" \in data.keys THEN data.error ELSE T_Unknown_error

\* error_msg of an unsuccessful body
ErrorMsg(data) ==
  IF "errors" \in data.keys /\ data.errors # <<>>
  THEN Join(T_sep, data.errors)
  ELSE IF "error" \in data.keys THEN data.error ELSE T_Unknown_error

\* variant of MentionsRpc: the text is not lowered first
MentionsRpcCaseSensitive(error_msg) ==
  Contains(T_rpc, error_msg) \/ Contains(T_timeout, error_msg)

\* "rpc" in error_msg.lower() or "timeout" in error_msg.lower()
MentionsRpc(error_msg) ==
  Contains(T_rpc, Lower(error_msg)) \/ Contains(T_timeout, Lower(error_msg))

\* variant of Classify: the body is looked at before the status
ClassifyBodyFirst(resp) ==
  CASE resp.body.type = "dict" /\ IsSuccess(resp.body) -> "Success"
    [] resp.kind = "429" -> "RateLimited"
    [] resp.kind \in {"httperror", "transport"} -> "TransportError"
    [] resp.kind = "notdict" -> "Unexpected"
    [] OTHER -> "RecoverableFailure"

\* the branch of the attempt body a response takes
Classify(resp) ==
  CASE resp.kind = "429" -> "RateLimited"
    [] resp.kind \in {"httperror", "transport"} -> "TransportError"
    [] resp.kind = "notdict" -> "Unexpected"
    [] OTHER -> IF IsSuccess(resp.body) THEN "Success" ELSE "RecoverableFailure"

\* variant of Rotates: except Exception does not rotate
RotatesNotOnUnexpected(class, error_msg, attempt) ==
  CASE class = "RateLimited" -> TRUE
    [] class = "TransportError" -> TRUE
    [] class = "RecoverableFailure" -> MentionsRpc(error_msg)
    [] OTHER -> FALSE

\* variant of Rotates: a rate-limited last attempt does not rotate
RotatesExceptOnLastAttempt(class, error_msg, attempt) ==
  CASE class = "RateLimited" -> attempt < MAX_RETRIES
    [] class = "TransportError" -> TRUE
    [] class = "Unexpected" -> TRUE
    [] class = "RecoverableFailure" -> MentionsRpc(error_msg)
    [] OTHER -> FALSE

\* does the branch call rotate_rpc_endpoint, at attempt number attempt
Rotates(class, error_msg, attempt) ==
  CASE class = "RateLimited" -> TRUE
    [] class = "TransportError" -> TRUE
    [] class = "Unexpected" -> TRUE
    [] class = "RecoverableFailure" -> MentionsRpc(error_msg)
    [] OTHER -> FALSE

\* variant of Handled: only except RequestException is present
HandledRequestExceptionOnly(class) == class = "TransportError"

\* the except clauses of the attempt body catch the exception of this branch
Handled(class) == class \in {"TransportError", "Unexpected"}

\* variant of NextAttempt: a rate-limited attempt is not counted
NextAttemptFreeOnRateLimit(class, attempt) ==
  IF class = "RateLimited" THEN attempt ELSE attempt + 1

\* the attempt number the for loop continues with after a branch
NextAttempt(class, attempt) == attempt + 1

\* variant of LoopEnds: the loop gives up one attempt early
LoopEndsOneEarly(next, max) == next >= max

\* range(1, MAX_RETRIES + 1) is used up: there is no attempt number next
LoopEnds(next, max) == next > max

\* variant of SkipSell: the cycle always goes on to the sell leg
SkipSellNever(buy_result) == FALSE

\* the cycle stops after the buy leg: not buy_result
SkipSell(buy_result) == ~Truthy(buy_result)

\* variant of SellAmount: the sell request always asks for the entire balance
SellAmountEntireBalance(amount) == "100%"

\* amount field of the sell payload; an optional amount is <<>> (None) or <<n>>
SellAmount(amount) ==
  IF amount = <<>> THEN "100%" ELSE StrOfAmount(amount[1])

\* token_amount = None; if "amount_out" in buy_result: token_amount =
\* buy_result["amount_out"] (<<>> is None)
AmountOut(buy_result) ==
  IF "amount_out" \in buy_result.keys /\ buy_result.amount_out # JsonNull
  THEN <<buy_result.amount_out>> ELSE <<>>

\* the amount_out field of a response body as it was received: <<>> when
\* the body has no such field
AmountField(body) ==
  IF "amount_out" \in body.keys THEN <<body.amount_out>> ELSE <<>>

\* variant of Tpm: the division is not guarded
TpmUnguarded(total, elapsed) == [num |-> total * 60, den |-> elapsed]

\* trades per minute, as the fraction num/den (0 when no time has elapsed)
Tpm(total, elapsed) ==
  IF elapsed > 0 THEN [num |-> total * 60, den |-> elapsed]
  ELSE [num |-> 0, den |-> 1]

(***************************************************************************)
(* State                                                                   *)
(***************************************************************************)
VARIABLES
  prog,              \* which script runs: "razor" or "seller"
  token_address,     \* argument of run
  max_duration,      \* argument of run
  endpoints,         \* the module's list SOLANA_RPC_ENDPOINTS
  api_pool,          \* the responses the trade API can give to a request
  now,               \* value of the last read of time.time()
  pc,                \* <<function, label>> of the next statement
  current_rpc_index, \* self.current_rpc_index of the running script
  total_trades, successful_trades, failed_trades, start_time,
  cycle_count, end_time, success, report, summary,      \* locals of run
  buy_result, token_amount,                  \* locals of execute_trade_cycle
  formatted_token, payload, attempt, data,   \* locals of the executing call
  tokens, ts_result,                         \* sell_all_tokens
  api_script,  \* canned responses the API still has to give
  \* history of the run, read by the properties only
  sent,        \* requests the current call has sent
  rots,        \* rotations the current call has performed
  log,         \* class of each response of the current call
  canned,      \* canned responses the current call has received
  lastReq,     \* the payload of the last request sent
  entry,       \* counters and index when the current call started
  cycleBuy,    \* how the buy leg of the current cycle ended
  cycleSells,  \* sell requests sent in the current cycle
  det,         \* trades whose outcome is determined (success seen / exhausted)
  ret,         \* trades whose call has returned
  exitPath,    \* how the session loop was left
  escaped,     \* the exception that left a call of the executor, if any
  cycleHint,   \* the amount_out field of the successful buy response
  cyclesFailed \* completed cycles that returned False

statVars == <<current_rpc_index, total_trades, successful_trades, failed_trades>>

runVars == <<start_time, cycle_count, end_time, success, report, summary>>

cycleVars == <<buy_result, token_amount>>

callVars == <<formatted_token, payload, attempt, data>>

inputVars == <<prog, token_address, max_duration, endpoints, api_pool>>

envVars == <<now, api_script>>

sellerVars == <<tokens, ts_result>>

callHist == <<sent, rots, log, canned, lastReq, entry>>

runHist ==
  <<cycleBuy, cycleSells, det, ret, exitPath, escaped, cycleHint,
    cyclesFailed>>

vars ==
  <<inputVars, envVars, pc, statVars, runVars, cycleVars, callVars, sellerVars,
    callHist, runHist>>

\* SOLANA_RPC_ENDPOINTS[i] for the 0-based index i
get_current_rpc_endpoint(index) == endpoints[index + 1]

\* variant of rotate_rpc_endpoint: the last endpoint of the list is never used
RotateSkippingLast(index) ==
  IF index + 1 >= Len(endpoints) - 1 THEN 0 ELSE index + 1

\* variant of rotate_rpc_endpoint: every second endpoint
RotateByTwo(index) == (index + 2) % Len(endpoints)

\* rotate_rpc_endpoint: the new index
rotate_rpc_endpoint(index) == (index + 1) % Len(endpoints)

NoPayload ==
  [action |-> "", mint |-> <<>>, amount |-> "", denominatedInSol |-> "",
   rpcEndpoint |-> ""]

NoReport ==
  [cycle |-> 0, success |-> FALSE, successful |-> 0, total |-> 0,
   elapsed |-> 0, tpm |-> [num |-> 0, den |-> 1]]

NoSnapshot == [total |-> 0, successful |-> 0, failed |-> 0, index |-> 0]

Snapshot ==
  [total |-> total_trades, successful |-> successful_trades,
   failed |-> failed_trades, index |-> current_rpc_index]

\* sequences over S of length at most n
SeqsUpTo(S, n) == UNION { [1..k -> S] : k \in 0..n }

\* RazorBot.__init__ / TokenSeller.__init__, then the script's entry point,
\* for the scripts of progs, against an API that answers its first requests
\* by one of scripts and the others from pool
InitWith(progs, pool, scripts) ==
  /\ api_pool = pool
  /\ prog \in progs
  /\ IF prog = "razor"
     THEN /\ token_address \in TokenStrings \cup {NotAString}
          /\ max_duration \in {0, MaxDuration}
          /\ tokens = <<>>
          /\ api_script \in scripts
          /\ pc = <<"run", "start">>
     ELSE /\ token_address = <<>>
          /\ max_duration = 0
          /\ tokens \in SeqsUpTo(MintStrings, MaxTokens)
          /\ api_script = <<>>
          /\ pc = <<"sell_all_tokens", "loop">>
  /\ endpoints = SOLANA_RPC_ENDPOINTS
  /\ now = 0
  /\ current_rpc_index = 0
  /\ total_trades = 0 /\ successful_trades = 0 /\ failed_trades = 0
  /\ start_time = 0
  /\ cycle_count = 0 /\ end_time = 0 /\ success = FALSE
  /\ report = NoReport /\ summary = <<>>
  /\ buy_result = PyNone /\ token_amount = <<>>
  /\ formatted_token = <<>> /\ payload = NoPayload /\ attempt = 0
  /\ data = PyNone
  /\ ts_result = FALSE
  /\ sent = 0 /\ rots = 0 /\ log = <<>> /\ canned = 0 /\ lastReq = NoPayload
  /\ entry = NoSnapshot
  /\ cycleBuy = "none" /\ cycleSells = 0
  /\ det = [successful |-> 0, failed |-> 0]
  /\ ret = [successful |-> 0, failed |-> 0]
  /\ exitPath = "none" /\ escaped = "none"
  /\ cycleHint = <<>> /\ cyclesFailed = 0

Init == InitWith({"razor", "seller"}, Responses, ApiScripts)

\* the frame of a call is popped: its locals are gone
PopCall ==
  /\ formatted_token' = <<>>
  /\ payload' = NoPayload
  /\ attempt' = 0
  /\ data' = PyNone

PopCycle == buy_result' = PyNone /\ token_amount' = <<>> /\ cycleHint' = <<>>

\* the caller has taken the result of the call: its history is dropped
DropCallHist ==
  /\ sent' = 0 /\ rots' = 0 /\ log' = <<>> /\ canned' = 0
  /\ lastReq' = NoPayload
  /\ entry' = NoSnapshot

(***************************************************************************)
(* The executor: buy_token, sell_token, TokenSeller.sell_token             *)
(***************************************************************************)
\* variant of RunHandler: run has no except Exception clause and builds its
\* summary after the try statement, so the exception leaves run
RunHandlerWithoutExceptException(exc) ==
  IF exc = "KeyboardInterrupt" THEN <<"run", "except_KeyboardInterrupt">>
  ELSE <<"main", "fatal">>

\* the except clause of run's try statement that catches exception exc
RunHandler(exc) ==
  IF exc = "KeyboardInterrupt" THEN <<"run", "except_KeyboardInterrupt">>
  ELSE <<"run", "except_Exception">>

\* where an exception exc that leaves the call of f is caught: in run, or
\* for the seller script in the except clause of __main__
HandlerOf(f, exc) ==
  IF f = "TokenSeller.sell_token" THEN <<"main", "fatal">>
  ELSE RunHandler(exc)

\* variant of BuildPayload: a new payload names the first endpoint of the list
BuildPayloadFirstEndpoint(f, token, amount) ==
  [action |-> IF f = "buy_token" THEN "buy" ELSE "sell",
   mint |-> Strip(token),
   amount |-> IF f = "buy_token" THEN BUY_AMOUNT_SOL ELSE SellAmount(amount),
   denominatedInSol |-> IF f = "buy_token" THEN "true" ELSE "false",
   rpcEndpoint |-> endpoints[1]]

\* strip the token, build the payload with the current endpoint
BuildPayload(f, token, amount) ==
  [action |-> IF f = "buy_token" THEN "buy" ELSE "sell",
   mint |-> Strip(token),
   amount |-> IF f = "buy_token" THEN BUY_AMOUNT_SOL ELSE SellAmount(amount),
   denominatedInSol |-> IF f = "buy_token" THEN "true" ELSE "false",
   rpcEndpoint |-> get_current_rpc_endpoint(current_rpc_index)]

\* buy_token / sell_token up to the for loop
CallStart(f, token, amount) ==
  /\ pc = <<f, "format">>
  /\ formatted_token' = format_token_address(token)
  /\ payload' = BuildPayload(f, token, amount)
  /\ attempt' = 1
  /\ data' = PyNone
  /\ sent' = 0 /\ rots' = 0 /\ log' = <<>> /\ canned' = 0
  /\ lastReq' = NoPayload
  /\ entry' = Snapshot
  /\ pc' = <<f, "attempt">>
  /\ UNCHANGED <<inputVars, envVars, statVars, runVars, cycleVars, sellerVars,
                 runHist>>

\* one iteration of the for loop: send the request, take the branch of the
\* response; max is the MAX_RETRIES of the script
AttemptStep(f, max) ==
  /\ pc = <<f, "attempt">>
  /\ \E resp \in (IF api_script = <<>> THEN api_pool ELSE {Head(api_script)}) :
       LET class == Classify(resp)
           msg == IF class = "RecoverableFailure" THEN ErrorMsg(resp.body)
                  ELSE <<>>
           rot == Rotates(class, msg, attempt)
           idx == IF rot THEN rotate_rpc_endpoint(current_rpc_index)
                  ELSE current_rpc_index
           raised == class \in {"TransportError", "Unexpected"}
           next == NextAttempt(class, attempt)
       IN /\ sent' = sent + 1
          /\ lastReq' = payload
          /\ api_script' = IF api_script = <<>> THEN <<>> ELSE Tail(api_script)
          /\ canned' = IF api_script = <<>> THEN canned ELSE canned + 1
          /\ cycleSells' = IF f = "sell_token" THEN cycleSells + 1
                           ELSE cycleSells
          /\ IF raised /\ ~Handled(class)
             THEN \* the exception leaves the call
                  /\ escaped' = class
                  /\ pc' = HandlerOf(f, class)
                  /\ exitPath' = IF f = "TokenSeller.sell_token" THEN exitPath
                                 ELSE "exception"
                  /\ PopCall /\ PopCycle
                  /\ UNCHANGED <<current_rpc_index, rots, log, det>>
             ELSE /\ log' = Append(log, class)
                  /\ current_rpc_index' = idx
                  /\ rots' = IF rot THEN rots + 1 ELSE rots
                  /\ payload' =
                       [payload EXCEPT !.rpcEndpoint =
                          IF rot THEN get_current_rpc_endpoint(idx) ELSE @]
                  /\ formatted_token' = formatted_token
                  /\ data' = IF class = "Success" THEN resp.body ELSE data
                  /\ IF class = "Success"
                     THEN /\ attempt' = attempt
                          /\ pc' = <<f, "success">>
                          /\ det' = [det EXCEPT !.successful = @ + 1]
                     ELSE IF ~LoopEnds(next, max)
                     THEN /\ attempt' = next
                          /\ pc' = pc
                          /\ det' = det
                     ELSE /\ attempt' = attempt
                          /\ pc' = <<f, "exhausted">>
                          /\ det' = [det EXCEPT !.failed = @ + 1]
                  /\ UNCHANGED <<escaped, exitPath, cycleVars, cycleHint>>
  /\ UNCHANGED <<inputVars, now, total_trades, successful_trades,
                 failed_trades, runVars, sellerVars, entry, cycleBuy, ret,
                 cyclesFailed>>

\* self.successful_trades += 1
CountSuccessful(f) ==
  /\ pc = <<f, "success">>
  /\ successful_trades' = successful_trades + 1
  /\ pc' = <<f, "success_total">>
  /\ UNCHANGED <<inputVars, envVars, current_rpc_index, total_trades,
                 failed_trades, runVars, cycleVars, callVars, sellerVars,
                 callHist, runHist>>

\* variant of CountFailed: every attempt of an exhausted call is a failed trade
CountFailedPerAttempt(f) ==
  /\ pc = <<f, "exhausted">>
  /\ failed_trades' = failed_trades + sent
  /\ pc' = <<f, "exhausted_total">>
  /\ UNCHANGED <<inputVars, envVars, current_rpc_index, total_trades,
                 successful_trades, runVars, cycleVars, callVars, sellerVars,
                 callHist, runHist>>

\* self.failed_trades += 1 after the loop
CountFailed(f) ==
  /\ pc = <<f, "exhausted">>
  /\ failed_trades' = failed_trades + 1
  /\ pc' = <<f, "exhausted_total">>
  /\ UNCHANGED <<inputVars, envVars, current_rpc_index, total_trades,
                 successful_trades, runVars, cycleVars, callVars, sellerVars,
                 callHist, runHist>>

\* self.total_trades += 1; return data / return None: the value returned
ReturnValue(f) == IF pc = <<f, "success_total">> THEN data ELSE PyNone

\* variant of CountTotalAndReturn: total_trades counts the attempts
CountTotalPerAttempt(f) ==
  /\ pc \in {<<f, "success_total">>, <<f, "exhausted_total">>}
  /\ total_trades' = total_trades + sent
  /\ ret' = IF pc[2] = "success_total"
            THEN [ret EXCEPT !.successful = @ + 1]
            ELSE [ret EXCEPT !.failed = @ + 1]
  /\ PopCall
  /\ UNCHANGED <<inputVars, envVars, current_rpc_index, successful_trades,
                 failed_trades, sellerVars, callHist, cycleSells, det,
                 exitPath, escaped, cyclesFailed>>

\* self.total_trades += 1 and the return, common to both paths
CountTotalAndReturn(f) ==
  /\ pc \in {<<f, "success_total">>, <<f, "exhausted_total">>}
  /\ total_trades' = total_trades + 1
  /\ ret' = IF pc[2] = "success_total"
            THEN [ret EXCEPT !.successful = @ + 1]
            ELSE [ret EXCEPT !.failed = @ + 1]
  /\ PopCall
  /\ UNCHANGED <<inputVars, envVars, current_rpc_index, successful_trades,
                 failed_trades, sellerVars, callHist, cycleSells, det,
                 exitPath, escaped, cyclesFailed>>

BuyStart == CallStart("buy_token", token_address, <<>>)

BuyAttempt == AttemptStep("buy_token", MAX_RETRIES)

BuyCount == CountSuccessful("buy_token") \/ CountFailed("buy_token")

\* the end of buy_token, back in execute_trade_cycle
BuyReturn ==
  /\ CountTotalAndReturn("buy_token")
  /\ buy_result' = ReturnValue("buy_token")
  /\ cycleBuy' = IF pc[2] = "success_total" THEN "Success" ELSE "None"
  /\ cycleHint' = IF pc[2] = "success_total" THEN AmountField(data) ELSE <<>>
  /\ pc' = <<"execute_trade_cycle", "check_buy">>
  /\ UNCHANGED <<runVars, token_amount>>

SellStart == CallStart("sell_token", token_address, token_amount)

SellAttempt == AttemptStep("sell_token", MAX_RETRIES)

SellCount == CountSuccessful("sell_token") \/ CountFailed("sell_token")

\* the end of sell_token, and the rest of execute_trade_cycle: the cycle
\* returns True when sell_result is true, False otherwise
SellReturn ==
  /\ CountTotalAndReturn("sell_token")
  /\ success' = Truthy(ReturnValue("sell_token"))
  /\ PopCycle
  /\ pc' = <<"run", "progress">>
  /\ UNCHANGED <<start_time, cycle_count, end_time, report, summary, cycleBuy>>

(***************************************************************************)
(* execute_trade_cycle                                                     *)
(***************************************************************************)
\* format_token_address(token_address) for the log line, then buy_token;
\* a token that is not a string has no strip: AttributeError, caught by run
CycleStart ==
  /\ pc = <<"execute_trade_cycle", "format">>
  /\ cycleBuy' = "pending"
  /\ cycleSells' = 0
  /\ IF token_address = NotAString
     THEN /\ pc' = RunHandler("AttributeError")
          /\ exitPath' = "exception"
     ELSE /\ pc' = <<"buy_token", "format">>
          /\ exitPath' = exitPath
  /\ UNCHANGED <<inputVars, envVars, statVars, runVars, cycleVars, callVars,
                 sellerVars, callHist, det, ret, escaped, cycleHint,
                 cyclesFailed>>

\* if not buy_result: return False; else take amount_out and sell
\* (buy_result is not read after that)
CheckBuy ==
  /\ pc = <<"execute_trade_cycle", "check_buy">>
  /\ IF SkipSell(buy_result)
     THEN /\ success' = FALSE
          /\ PopCycle
          /\ pc' = <<"run", "progress">>
     ELSE /\ success' = success
          /\ buy_result' = PyNone
          /\ token_amount' = AmountOut(buy_result)
          /\ cycleHint' = cycleHint
          /\ pc' = <<"sell_token", "format">>
  /\ DropCallHist
  /\ UNCHANGED <<inputVars, envVars, statVars, start_time, cycle_count, end_time,
                 report, summary, callVars, sellerVars, cycleBuy, cycleSells,
                 det, ret, exitPath, escaped, cyclesFailed>>

(***************************************************************************)
(* run                                                                     *)
(***************************************************************************)
\* values the next read of time.time() may return
ClockRead == now..(now + MaxStep)

\* the read in the loop condition: after MaxCycles cycles the budget is spent
LoopClockRead ==
  IF cycle_count < MaxCycles THEN ClockRead
  ELSE {IF now < end_time THEN end_time ELSE now}

\* variant of LoopCondition: a cycle still starts when the budget is just spent
LoopConditionInclusive(t) == t <= end_time

\* variant of LoopCondition: the loop also ends after a failed cycle
LoopConditionStopsOnFailure(t) == t < end_time /\ (cycle_count = 0 \/ success)

\* the condition of the while loop, for the value t read from the clock
LoopCondition(t) == t < end_time

\* cycle_count = 0; start_time = time.time(); end_time = start_time + max_duration
RunStart ==
  /\ pc = <<"run", "start">>
  /\ cycle_count' = 0
  /\ start_time' = now
  /\ end_time' = now + max_duration
  /\ pc' = <<"run", "loop">>
  /\ UNCHANGED <<inputVars, envVars, statVars, success, report, summary,
                 cycleVars, callVars, sellerVars, callHist, runHist>>

\* while time.time() < end_time (the progress report of the previous
\* iteration has been emitted: elapsed, remaining, tpm are not read again)
RunLoop ==
  /\ pc = <<"run", "loop">>
  /\ report' = NoReport
  /\ \E t \in LoopClockRead :
       /\ now' = t
       /\ IF LoopCondition(t)
          THEN /\ pc' = <<"execute_trade_cycle", "format">>
               /\ exitPath' = exitPath
          ELSE /\ pc' = <<"run", "finally">>
               /\ exitPath' = "expiry"
  /\ UNCHANGED <<inputVars, api_script, statVars, start_time, cycle_count,
                 end_time, success, summary, cycleVars, callVars,
                 sellerVars, callHist, cycleBuy, cycleSells, det, ret,
                 escaped, cycleHint, cyclesFailed>>

\* cycle_count += 1 and the progress report
RunProgress ==
  /\ pc = <<"run", "progress">>
  /\ cycle_count' = cycle_count + 1
  /\ \E t \in ClockRead :
       /\ now' = t
       /\ report' = [cycle |-> cycle_count + 1, success |-> success,
                     successful |-> successful_trades,
                     total |-> total_trades,
                     elapsed |-> t - start_time,
                     tpm |-> Tpm(total_trades, t - start_time)]
  /\ pc' = <<"run", "loop">>
  /\ cyclesFailed' = IF success THEN cyclesFailed ELSE cyclesFailed + 1
  /\ DropCallHist
  /\ UNCHANGED <<inputVars, api_script, statVars, start_time, end_time,
                 success, summary, cycleVars, callVars, sellerVars, cycleBuy,
                 cycleSells, det, ret, exitPath, escaped, cycleHint>>

\* the statements of the try block, where KeyboardInterrupt can be raised
InTry ==
  \/ pc[1] \in {"execute_trade_cycle", "buy_token", "sell_token"}
  \/ pc \in {<<"run", "loop">>, <<"run", "progress">>}

\* KeyboardInterrupt raised before the statement at pc: no handler inside
\* the executor or the cycle catches it (they catch Exception), the frames
\* are unwound up to run
Interrupt ==
  /\ InTry
  /\ pc' = RunHandler("KeyboardInterrupt")
  /\ exitPath' = "interrupt"
  /\ escaped' = IF pc[1] \in {"buy_token", "sell_token"}
                THEN "KeyboardInterrupt" ELSE escaped
  /\ PopCall /\ PopCycle
  /\ UNCHANGED <<inputVars, envVars, statVars, runVars, sellerVars, callHist,
                 cycleBuy, cycleSells, det, ret, cyclesFailed>>

\* except KeyboardInterrupt / except Exception: log, fall into finally
RunExcept ==
  /\ pc \in {<<"run", "except_KeyboardInterrupt">>, <<"run", "except_Exception">>}
  /\ pc' = <<"run", "finally">>
  /\ UNCHANGED <<inputVars, envVars, statVars, runVars, cycleVars, callVars,
                 sellerVars, callHist, runHist>>

\* finally: the final statistics and the returned summary
RunFinally ==
  /\ pc = <<"run", "finally">>
  /\ \E t \in ClockRead :
       /\ now' = t
       /\ summary' = << [duration |-> t - start_time,
                         total_trades |-> total_trades,
                         successful_trades |-> successful_trades,
                         failed_trades |-> failed_trades,
                         tpm |-> Tpm(total_trades, t - start_time)] >>
  /\ pc' = <<"run", "done">>
  /\ UNCHANGED <<inputVars, api_script, statVars, start_time, cycle_count,
                 end_time, success, report, cycleVars, callVars, sellerVars,
                 callHist, runHist>>

(***************************************************************************)
(* sell_tokens.py: sell_all_tokens over the tokens of the wallet           *)
(***************************************************************************)
\* for token in tokens: sell_token(mint)
SellAllLoop ==
  /\ pc = <<"sell_all_tokens", "loop">>
  /\ pc' = IF tokens = <<>> THEN <<"sell_all_tokens", "done">>
           ELSE <<"TokenSeller.sell_token", "format">>
  /\ DropCallHist
  /\ UNCHANGED <<inputVars, envVars, statVars, runVars, cycleVars, callVars,
                 sellerVars, runHist>>

TsStart ==
  /\ tokens # <<>>
  /\ CallStart("TokenSeller.sell_token", Head(tokens), <<>>)

TsAttempt == AttemptStep("TokenSeller.sell_token", TS_MAX_RETRIES)

\* return True / return False, then the next token
TsReturn ==
  /\ pc \in {<<"TokenSeller.sell_token", "success">>,
             <<"TokenSeller.sell_token", "exhausted">>}
  /\ ts_result' = (pc[2] = "success")
  /\ ret' = IF pc[2] = "success"
            THEN [ret EXCEPT !.successful = @ + 1]
            ELSE [ret EXCEPT !.failed = @ + 1]
  /\ tokens' = Tail(tokens)
  /\ PopCall
  /\ pc' = <<"sell_all_tokens", "loop">>
  /\ UNCHANGED <<inputVars, envVars, statVars, runVars, cycleVars, callHist,
                 cycleBuy, cycleSells, det, exitPath, escaped, cycleHint,
                 cyclesFailed>>

Next ==
  \/ RunStart
  \/ RunLoop
  \/ CycleStart
  \/ BuyStart
  \/ BuyAttempt
  \/ BuyCount
  \/ BuyReturn
  \/ CheckBuy
  \/ SellStart
  \/ SellAttempt
  \/ SellCount
  \/ SellReturn
  \/ RunProgress
  \/ Interrupt
  \/ RunExcept
  \/ RunFinally
  \/ SellAllLoop
  \/ TsStart
  \/ TsAttempt
  \/ TsReturn

Spec == Init /\ [][Next]_vars

\* razor.py alone
NextRun ==
  \/ RunStart
  \/ RunLoop
  \/ CycleStart
  \/ BuyStart
  \/ BuyAttempt
  \/ BuyCount
  \/ BuyReturn
  \/ CheckBuy
  \/ SellStart
  \/ SellAttempt
  \/ SellCount
  \/ SellReturn
  \/ RunProgress
  \/ Interrupt
  \/ RunExcept
  \/ RunFinally

\* razor.py against an API that answers each request with any of the
\* responses of HintResponses
InitCycle == InitWith({"razor"}, HintResponses, {<<>>})

SpecCycle == InitCycle /\ [][NextRun]_vars

\* razor.py is not suspended for ever: it goes on to its next statement,
\* every request is answered, every read of the clock returns; the API
\* answers each request with any of the responses of ClassResponses; the
\* token is an address padded with white space, or not a string
LiveInit ==
  /\ InitWith({"razor"}, ClassResponses, {<<>>})
  /\ token_address \in {<<" ","T","k","\n">>, NotAString}

LiveSpec == LiveInit /\ [][NextRun]_vars /\ WF_vars(NextRun)

(***************************************************************************)
(* The rotator alone: rotate_rpc_endpoint called again and again, from any  *)
(* index, over any configured endpoint list: the lists SOLANA_RPC_ENDPOINTS *)
(* starts with, and one list that names an endpoint twice.                  *)
(***************************************************************************)
EndpointLists ==
  { SubSeq(SOLANA_RPC_ENDPOINTS, 1, n) : n \in 1..Len(SOLANA_RPC_ENDPOINTS) }
    \cup { << SOLANA_RPC_ENDPOINTS[1], SOLANA_RPC_ENDPOINTS[2],
              SOLANA_RPC_ENDPOINTS[1] >> }

InitRotation ==
  /\ prog = "rotator"
  /\ api_pool = Responses
  /\ endpoints \in EndpointLists
  /\ current_rpc_index \in 0..(Len(endpoints) - 1)
  /\ entry = [NoSnapshot EXCEPT !.index = current_rpc_index]
  /\ rots = 0
  /\ pc = <<"rotate_rpc_endpoint", "call">>
  /\ token_address = <<>> /\ max_duration = 0 /\ tokens = <<>>
  /\ api_script = <<>> /\ now = 0
  /\ total_trades = 0 /\ successful_trades = 0 /\ failed_trades = 0
  /\ start_time = 0
  /\ cycle_count = 0 /\ end_time = 0 /\ success = FALSE
  /\ report = NoReport /\ summary = <<>>
  /\ buy_result = PyNone /\ token_amount = <<>>
  /\ formatted_token = <<>> /\ payload = NoPayload /\ attempt = 0
  /\ data = PyNone
  /\ ts_result = FALSE
  /\ sent = 0 /\ log = <<>> /\ canned = 0 /\ lastReq = NoPayload
  /\ cycleBuy = "none" /\ cycleSells = 0
  /\ det = [successful |-> 0, failed |-> 0]
  /\ ret = [successful |-> 0, failed |-> 0]
  /\ exitPath = "none" /\ escaped = "none"
  /\ cycleHint = <<>> /\ cyclesFailed = 0

\* one call of rotate_rpc_endpoint
Rotate ==
  /\ pc = <<"rotate_rpc_endpoint", "call">>
  /\ rots < MaxRotations
  /\ current_rpc_index' = rotate_rpc_endpoint(current_rpc_index)
  /\ rots' = rots + 1
  /\ UNCHANGED <<inputVars, envVars, pc, total_trades, successful_trades,
                 failed_trades, runVars, cycleVars, callVars, sellerVars,
                 sent, log, canned, lastReq, entry, runHist>>

NextRotation == Rotate

SpecRotation == InitRotation /\ [][NextRotation]_vars

(***************************************************************************)
(* The executor alone: one call of buy_token, sell_token or                 *)
(* TokenSeller.sell_token taken at the head of any of its attempts, with    *)
(* any active endpoint, the API answering the next request with a known     *)
(* response and freely afterwards.  The razor bot has been through two      *)
(* cycles whose buy leg failed (which leaves any index active), and for     *)
(* sell_token through the successful buy of this cycle; the earlier         *)
(* attempts of the call failed without a rotation.                          *)
(***************************************************************************)
\* a 429 status may come with any body
RateLimitedWithBody ==
  { Resp("429", b) : b \in {SignatureBody, RpcTimeoutBody} }

ScriptedResponses == Responses \cup RateLimitedWithBody

\* MAX_RETRIES of the running script
MaxOf == IF prog = "razor" THEN MAX_RETRIES ELSE TS_MAX_RETRIES

InitExecutor ==
  /\ prog \in {"razor", "seller"}
  /\ api_pool = Responses
  /\ endpoints = SOLANA_RPC_ENDPOINTS
  /\ current_rpc_index \in 0..(Len(endpoints) - 1)
  /\ attempt \in 1..MaxOf
  /\ \E f \in (IF prog = "razor" THEN {"buy_token", "sell_token"}
                ELSE {"TokenSeller.sell_token"}) :
       /\ pc = <<f, "attempt">>
       /\ token_address \in (IF prog = "razor" THEN {<<" ","T","k","\n">>}
                              ELSE {<<>>})
       /\ tokens \in (IF prog = "razor" THEN {<<>>}
                       ELSE {<<m>> : m \in MintStrings})
       /\ token_amount \in (IF f = "sell_token" THEN {<<>>, <<5>>} ELSE {<<>>})
       /\ formatted_token
            = format_token_address(IF prog = "razor" THEN token_address
                                   ELSE Head(tokens))
       /\ payload = BuildPayload(f, formatted_token, token_amount)
       /\ total_trades = (IF f = "buy_token" THEN 2
                          ELSE IF f = "sell_token" THEN 3 ELSE 0)
       /\ successful_trades = (IF f = "sell_token" THEN 1 ELSE 0)
       /\ failed_trades = (IF prog = "razor" THEN 2 ELSE 0)
       /\ cycle_count = (IF prog = "razor" THEN 2 ELSE 0)
       /\ cycleBuy = (IF f = "buy_token" THEN "pending"
                      ELSE IF f = "sell_token" THEN "Success" ELSE "none")
       /\ cycleSells = (IF f = "sell_token" THEN attempt - 1 ELSE 0)
  /\ max_duration = (IF prog = "razor" THEN MaxDuration ELSE 0)
  /\ now = 0 /\ start_time = 0 /\ end_time = max_duration
  /\ success = FALSE /\ report = NoReport /\ summary = <<>>
  /\ buy_result = PyNone
  /\ data = PyNone
  /\ ts_result = FALSE
  /\ api_script \in { <<r>> : r \in ScriptedResponses }
  /\ sent = attempt - 1
  /\ rots = 0
  /\ log = [i \in 1..(attempt - 1) |-> "RecoverableFailure"]
  /\ canned = 0
  /\ lastReq = (IF attempt > 1 THEN payload ELSE NoPayload)
  /\ entry = Snapshot
  /\ det = [successful |-> successful_trades, failed |-> failed_trades]
  /\ ret = det
  /\ exitPath = "none" /\ escaped = "none"
  /\ cycleHint = token_amount
  /\ cyclesFailed = (IF prog = "razor" THEN 2 ELSE 0)

NextExecutor ==
  \/ BuyAttempt
  \/ BuyCount
  \/ BuyReturn
  \/ SellAttempt
  \/ SellCount
  \/ SellReturn
  \/ TsAttempt
  \/ TsReturn

SpecExecutor == InitExecutor /\ [][NextExecutor]_vars

(***************************************************************************)
(* Properties                                                              *)
(***************************************************************************)
Razor == prog = "razor"

AfterBuy == pc = <<"execute_trade_cycle", "check_buy">>

\* the sell leg has returned and the cycle with it
AfterSell == pc = <<"run", "progress">> /\ sent > 0

AllRateLimited ==
  log # <<>> /\ \A i \in DOMAIN log : log[i] = "RateLimited"

\* C1: total_trades = successful_trades + failed_trades at every observation
\* point: when buy_token / sell_token has returned, at the progress report of
\* a cycle, and in the summary run returns.
C1_CountersAddUp ==
  /\ (AfterBuy \/ pc \in {<<"run", "progress">>, <<"run", "loop">>})
       => total_trades = successful_trades + failed_trades
  /\ summary # <<>> =>
       summary[1].total_trades
         = summary[1].successful_trades + summary[1].failed_trades

\* C2: when buy_token returned None, the cycle sends no sell request and
\* returns False.
C2_NoSellAfterFailedBuy ==
  cycleBuy = "None" =>
    /\ cycleSells = 0
    /\ pc[1] # "sell_token"
    /\ pc \in {<<"run", "progress">>, <<"run", "loop">>} => success = FALSE

C2_Witness ==
  cycleBuy = "None" /\ pc = <<"run", "progress">> /\ success = FALSE

\* C3 as stated: three rate-limited attempts of one call of the razor bot
\* come with exactly two rotations.
C3_TwoRotations ==
  (Razor /\ AllRateLimited /\ Len(log) = MAX_RETRIES) => (sent = 3 /\ rots = 2)

\* C3 amended: against an API that answers 429 to every request, one call of
\* the razor bot rotates once per attempt, goes on while fewer than three
\* attempts were made, and after the third, having rotated three times,
\* leaves the loop and returns None.
C3_ThreeRotations ==
  (Razor /\ AllRateLimited) =>
    /\ sent = Len(log) /\ rots = Len(log) /\ Len(log) <= MAX_RETRIES
    /\ current_rpc_index = (entry.index + Len(log)) % Len(SOLANA_RPC_ENDPOINTS)
    /\ pc[2] = "attempt" => Len(log) < MAX_RETRIES /\ attempt = Len(log) + 1
    /\ pc[1] \in {"buy_token", "sell_token"} /\ pc[2] # "attempt"
         => Len(log) = MAX_RETRIES /\ pc[2] \in {"exhausted", "exhausted_total"}
    /\ AfterBuy => Len(log) = MAX_RETRIES /\ buy_result = PyNone
    /\ AfterSell => Len(log) = MAX_RETRIES /\ success = FALSE

C3_Witness ==
  Razor /\ AllRateLimited /\ AfterBuy /\ sent = 3 /\ rots = 3
    /\ buy_result = PyNone

\* C4: the summary of an interrupted run counts exactly the trades completed
\* before the interrupt: each counter lies between the trades whose call had
\* returned and the trades whose outcome was determined, and no trade is in
\* one counter but not in total_trades.
C4_InterruptedSummaryCounts ==
  (exitPath = "interrupt" /\ summary # <<>>) =>
    LET s == summary[1]
    IN /\ s.successful_trades \in ret.successful..det.successful
       /\ s.failed_trades \in ret.failed..det.failed
       /\ s.total_trades = s.successful_trades + s.failed_trades

\* C5: no fault of the trade API (status, body, raised error) leaves
\* buy_token, sell_token or TokenSeller.sell_token as an exception: the call
\* ends with the success payload (True for the seller) or with None (False).
C5_NoApiFaultEscapes ==
  /\ escaped \notin {"TransportError", "Unexpected"}
  /\ pc # <<"main", "fatal">>
  /\ exitPath = "exception" => token_address = NotAString
  /\ AfterBuy =>
       \/ cycleBuy = "None" /\ buy_result = PyNone
       \/ cycleBuy = "Success" /\ IsSuccess(buy_result)

C5_Witness ==
  /\ AfterBuy
  /\ \E i \in DOMAIN log : log[i] = "Unexpected"
  /\ \E i \in DOMAIN log : log[i] = "TransportError"

\* C6: one call sends at most MAX_RETRIES requests (5 in the seller script),
\* whatever the responses.
C6_AttemptBudget ==
  /\ sent <= (IF Razor THEN MAX_RETRIES ELSE TS_MAX_RETRIES)
  /\ sent = Len(log)

C6_Witness ==
  /\ Razor /\ sent = MAX_RETRIES
  /\ \E i \in DOMAIN log : log[i] = "RateLimited"
  /\ pc[2] = "exhausted"

\* C7: against the mock API that first answers {errors: ["rpc timeout"]} and
\* then {signature: "abc123", errors: []}, the call rotates once after the
\* first response, sends the second request with the rotated endpoint, and
\* returns the second response after two requests.
C7_RetryAfterRpcTimeout ==
  /\ canned = 1 =>
       /\ sent = 1 /\ rots = 1 /\ log = <<"RecoverableFailure">>
       /\ pc[1] = "buy_token" =>
            /\ pc[2] = "attempt" /\ attempt = 2
            /\ payload.rpcEndpoint
                 = get_current_rpc_endpoint(rotate_rpc_endpoint(entry.index))
  /\ canned = 2 =>
       /\ sent = 2 /\ rots = 1 /\ log = <<"RecoverableFailure", "Success">>
       /\ lastReq.rpcEndpoint
            = get_current_rpc_endpoint(rotate_rpc_endpoint(entry.index))
       /\ lastReq.rpcEndpoint # get_current_rpc_endpoint(entry.index)
       /\ pc[1] = "buy_token" =>
            /\ pc[2] \in {"success", "success_total"}
            /\ attempt = 2 /\ data = SignatureBody
       /\ AfterBuy => buy_result = SignatureBody /\ cycleBuy = "Success"

C7_Witness ==
  canned = 2 /\ AfterBuy /\ buy_result = SignatureBody /\ sent = 2 /\ rots = 1

\* C8: every way out of the session loop (expiry, interrupt, exception in a
\* cycle) leads into the finalization, and run ends by returning the summary
\* of the counters.
C8_SummaryOnEveryExit ==
  /\ exitPath # "none" =>
       pc \in {<<"run", "except_KeyboardInterrupt">>,
               <<"run", "except_Exception">>,
               <<"run", "finally">>, <<"run", "done">>}
  /\ (Razor /\ exitPath = "none") => (InTry \/ pc = <<"run", "start">>)
  /\ summary # <<>> <=> pc = <<"run", "done">>
  /\ pc = <<"run", "done">> =>
       /\ summary[1].duration = now - start_time
       /\ summary[1].total_trades = total_trades
       /\ summary[1].successful_trades = successful_trades
       /\ summary[1].failed_trades = failed_trades
       /\ summary[1].tpm = Tpm(total_trades, now - start_time)

C8_Witness ==
  pc = <<"run", "done">> /\ exitPath = "exception" /\ summary # <<>>

\* C9: with a token identifier that is empty after trimming, no request is
\* sent and no counter changes.
C9_BlankTokenSendsNothing ==
  (Razor /\ token_address \in TokenStrings /\ Strip(token_address) = <<>>) =>
    /\ sent = 0
    /\ total_trades = 0 /\ successful_trades = 0 /\ failed_trades = 0

\* the counters moved by one trade since the call started: a successful one
\* when ok, a failed one otherwise
CountedOnce(ok) ==
  /\ total_trades = entry.total + 1
  /\ successful_trades = entry.successful + (IF ok THEN 1 ELSE 0)
  /\ failed_trades = entry.failed + (IF ok THEN 0 ELSE 1)

\* C10: a call that has returned has added exactly one to total_trades and
\* exactly one to successful_trades (payload returned) or to failed_trades
\* (None returned), whatever the number of attempts.
C10_OneTradePerCall ==
  /\ AfterBuy => CountedOnce(cycleBuy = "Success")
  /\ AfterSell => CountedOnce(success)

C10_Witness ==
  AfterSell /\ success /\ sent = MAX_RETRIES /\ total_trades = 2

\* no endpoint is named twice in the list
Distinct(list) == \A i, j \in DOMAIN list : list[i] = list[j] => i = j

\* C11: over every endpoint list of size N and from every starting index, N
\* consecutive rotations lead back to the endpoint the rotator started at, and
\* 1..N-1 rotations lead to another endpoint when the endpoints are distinct.
C11_RotationCycle ==
  pc[1] = "rotate_rpc_endpoint" =>
    LET N == Len(endpoints)
        here == get_current_rpc_endpoint(current_rpc_index)
        origin == get_current_rpc_endpoint(entry.index)
    IN /\ current_rpc_index \in 0..(N - 1)
       /\ rots = N => (current_rpc_index = entry.index /\ here = origin)
       /\ (rots \in 1..(N - 1) /\ Distinct(endpoints)) => here # origin

C11_Witness ==
  /\ pc[1] = "rotate_rpc_endpoint"
  /\ endpoints = SOLANA_RPC_ENDPOINTS
  /\ entry.index = 3 /\ rots = Len(endpoints) /\ current_rpc_index = 3

\* C12: the active index always lies in 0 .. length - 1, and a step changes it
\* only by a rotation, to exactly (index + 1) mod length.
C12_IndexInRange ==
  /\ [](current_rpc_index \in 0..(Len(endpoints) - 1))
  /\ [][IF rots' = rots + 1
        THEN current_rpc_index' = (current_rpc_index + 1) % Len(endpoints)
        ELSE current_rpc_index' = current_rpc_index]_vars

\* the index has wrapped around the end of the list within one call
C12_Witness ==
  /\ Razor /\ pc[1] = "buy_token"
  /\ entry.index = 5 /\ rots = 3 /\ current_rpc_index = 1

\* the sell leg of the cycle that has just returned ended in Success
SellLegSucceeded ==
  cycleSells > 0 /\ log # <<>> /\ log[Len(log)] = "Success"

\* C13: the value execute_trade_cycle returns is True exactly when buy_token
\* returned a success payload and the sell_token call after it did too.
C13_CycleSuccessIffBothLegs ==
  pc = <<"run", "progress">> =>
    (success <=> (cycleBuy = "Success" /\ SellLegSucceeded))

C13_Witness ==
  /\ pc = <<"run", "progress">> /\ success
  /\ cycleBuy = "Success" /\ SellLegSucceeded

\* C14: a cycle that returned False does not end the session: the progress
\* report leads back to the loop condition, and when the clock read there is
\* below end_time and no interrupt arrives, the next cycle starts.
C14_FailedCycleDoesNotHalt ==
  [][/\ (pc = <<"run", "progress">> /\ exitPath' # "interrupt")
         => pc' = <<"run", "loop">>
     /\ (/\ pc = <<"run", "loop">> /\ cycle_count > 0 /\ ~success
         /\ now' < end_time /\ exitPath' # "interrupt")
         => pc' = <<"execute_trade_cycle", "format">>]_vars

\* a second cycle is about to start after a first one whose buy leg failed
C14_Witness ==
  /\ pc = <<"execute_trade_cycle", "format">>
  /\ cycle_count = 1 /\ ~success /\ cycleBuy = "None" /\ failed_trades = 1

\* C15: with no time elapsed, trades per minute is 0, in the progress report
\* and in the summary, and no tpm is a division by zero.
C15_TpmAtZeroElapsed ==
  /\ report.tpm.den > 0
  /\ (report # NoReport /\ report.elapsed = 0) => report.tpm = Tpm(0, 0)
  /\ summary # <<>> =>
       /\ summary[1].tpm.den > 0
       /\ summary[1].duration = 0 => summary[1].tpm.num = 0

C15_Witness ==
  /\ report.cycle = 1 /\ report.elapsed = 0 /\ report.total > 0
  /\ report.tpm.num = 0
  /\ summary # <<>> /\ summary[1].duration = 0
  /\ summary[1].total_trades > 0 /\ summary[1].tpm.num = 0

\* the next request of the call will get the known response Head(api_script)
Scripted == pc[2] = "attempt" /\ api_script # <<>>

\* the step rotated once and put the new endpoint into the request
RotatedOnce ==
  /\ current_rpc_index' = (current_rpc_index + 1) % Len(endpoints)
  /\ rots' = rots + 1
  /\ payload'.rpcEndpoint = endpoints[current_rpc_index' + 1]

\* the step used up one attempt without success: the loop goes on with the
\* next attempt number if there is one and is left as exhausted otherwise
AttemptUsedUp ==
  /\ sent' = sent + 1
  /\ IF attempt < MaxOf
     THEN pc' = pc /\ attempt' = attempt + 1
     ELSE pc' = <<pc[1], "exhausted">>

\* C16: a parsed response is classified as Success exactly when it carries a
\* true success flag, or a signature together with an errors list that is
\* empty; every other shape is a failure and the loop goes on.
C16_SuccessClassification ==
  [][(Scripted /\ Head(api_script).kind = "ok") =>
       LET b == Head(api_script).body
           flagged == "success" \in b.keys /\ b.success
           signed == /\ "signature" \in b.keys
                     /\ "errors" \in b.keys /\ b.errors = <<>>
       IN IF flagged \/ signed
          THEN pc' = <<pc[1], "success">> /\ data' = b
          ELSE /\ log' = Append(log, "RecoverableFailure")
               /\ AttemptUsedUp]_vars

\* C17: a response with status 429 rotates the endpoint exactly once at any
\* attempt number, the last one included, and its body is not looked at: the
\* attempt is rate-limited whatever the body says.
C17_RateLimitAlwaysRotates ==
  [][(Scripted /\ Head(api_script).kind = "429") =>
       /\ log' = Append(log, "RateLimited")
       /\ RotatedOnce
       /\ data' = PyNone
       /\ AttemptUsedUp]_vars

\* the last permitted attempt was rate-limited and rotated past the end of
\* the list
C17_Witness ==
  /\ canned = 1 /\ Len(log) = MaxOf /\ log[Len(log)] = "RateLimited"
  /\ pc[2] = "exhausted" /\ rots = 1
  /\ entry.index = Len(endpoints) - 1 /\ current_rpc_index = 0

\* C18: for a parsed response classified as a failure, the reason is the
\* joined errors list when it is non-empty, else the error field, else
\* 'Unknown error'; the endpoint is rotated once when the lowered reason
\* contains "rpc" or "timeout", at any attempt number, and the index is left
\* alone otherwise.
C18_RotateOnRpcReason ==
  [][(/\ Scripted /\ Head(api_script).kind = "ok"
      /\ log' = Append(log, "RecoverableFailure")) =>
       LET b == Head(api_script).body
           reason == IF "errors" \in b.keys /\ b.errors # <<>>
                     THEN Join(T_sep, b.errors)
                     ELSE IF "error" \in b.keys THEN b.error
                     ELSE T_Unknown_error
           keyword == \/ Contains(T_rpc, Lower(reason))
                      \/ Contains(T_timeout, Lower(reason))
       IN /\ IF keyword
             THEN RotatedOnce
             ELSE /\ current_rpc_index' = current_rpc_index
                  /\ rots' = rots /\ payload' = payload
          /\ AttemptUsedUp]_vars

\* a failure that names rpc or timeout on the last permitted attempt rotated
C18_Witness ==
  /\ canned = 1 /\ Len(log) = MaxOf /\ log[Len(log)] = "RecoverableFailure"
  /\ pc[2] = "exhausted" /\ rots = 1
  /\ current_rpc_index = (entry.index + 1) % Len(endpoints)

\* C19: an exception that is not a RequestException, raised in an attempt,
\* has the effect of a transport error: one attempt used, one rotation, the
\* request's endpoint updated, the next attempt if one remains; nothing
\* leaves the call.
C19_UnexpectedLikeTransport ==
  [][(Scripted /\ Head(api_script).kind \in {"notdict", "transport", "httperror"})
       => /\ log' = Append(log, IF Head(api_script).kind = "notdict"
                                 THEN "Unexpected" ELSE "TransportError")
          /\ RotatedOnce
          /\ AttemptUsedUp
          /\ escaped' = escaped /\ data' = data
          /\ UNCHANGED <<total_trades, successful_trades, failed_trades>>]_vars

C19_Witness ==
  /\ canned = 1 /\ log = <<"Unexpected">> /\ sent = 1 /\ rots = 1
  /\ pc[2] = "attempt" /\ attempt = 2
  /\ payload.rpcEndpoint = get_current_rpc_endpoint(current_rpc_index)

\* none of the first n attempts of the call was a Success
NoSuccessIn(n) == \A i \in 1..n : log[i] # "Success"

\* the call ended at its first Success, which is its last attempt
EndedAtFirstSuccess ==
  /\ log # <<>> /\ log[Len(log)] = "Success" /\ NoSuccessIn(Len(log) - 1)
  /\ sent = Len(log)

\* the call ended after MAX_RETRIES attempts without a Success
EndedExhausted ==
  Len(log) = MaxOf /\ NoSuccessIn(Len(log)) /\ sent = MaxOf

\* C20: a call goes on only while no attempt was a Success; it returns at its
\* first Success with the response of that attempt and no request after it,
\* and it returns None only after exactly MAX_RETRIES attempts, none of them
\* a Success.
C20_ReturnAtFirstSuccess ==
  /\ pc[2] = "attempt" => NoSuccessIn(Len(log)) /\ sent = Len(log)
  /\ pc[2] \in {"success", "success_total"}
       => EndedAtFirstSuccess /\ IsSuccess(data)
  /\ pc[2] \in {"exhausted", "exhausted_total"} => EndedExhausted
  /\ AfterBuy =>
       IF cycleBuy = "Success"
       THEN EndedAtFirstSuccess /\ IsSuccess(buy_result)
       ELSE EndedExhausted /\ buy_result = PyNone
  /\ AfterSell => IF success THEN EndedAtFirstSuccess ELSE EndedExhausted

\* buy_token returned the response of its third attempt
C20_Witness ==
  /\ AfterBuy /\ cycleBuy = "Success" /\ Len(log) = MAX_RETRIES
  /\ EndedAtFirstSuccess /\ IsSuccess(buy_result)

\* C21: a cycle starts only on a clock read below end_time; every run ends
\* with the summary returned, after which no request is sent; a run of
\* duration 0 executes no cycle, sends no request and reports zero trades.
C21_RunTerminates ==
  /\ [][pc' = <<"execute_trade_cycle", "format">>
          => (pc = <<"run", "loop">> /\ now' - start_time < max_duration)]_vars
  /\ [][pc = <<"run", "done">> => (pc' = pc /\ sent' = sent)]_vars
  /\ []((Razor /\ max_duration = 0) =>
          /\ cycle_count = 0 /\ sent = 0 /\ total_trades = 0
          /\ pc[1] = "run"
          /\ summary # <<>> => summary[1].total_trades = 0)
  /\ Razor => <>(pc = <<"run", "done">> /\ summary # <<>>)

\* a run that went through cycles has ended by expiry with its summary
C21_Witness ==
  /\ Razor /\ pc = <<"run", "done">> /\ exitPath = "expiry"
  /\ cycle_count = MaxCycles /\ total_trades > 0 /\ summary # <<>>

\* the sell request the call is about to send, and the last one it has sent,
\* are token-denominated sell requests for amount
SellRequestsCarry(amount) ==
  /\ pc = <<"sell_token", "attempt">> =>
       /\ payload.action = "sell"
       /\ payload.denominatedInSol = "false"
       /\ payload.amount = amount
  /\ (pc[1] = "sell_token" /\ sent > 0) =>
       /\ lastReq.action = "sell"
       /\ lastReq.denominatedInSol = "false"
       /\ lastReq.amount = amount

\* C22 as stated: in a cycle whose buy succeeded the sell request is
\* token-denominated, its amount is str of the amount_out field whenever the
\* buy response has that field, and "100%" exactly when it has not.
C22_HintWheneverFieldPresent ==
  (Razor /\ cycleBuy = "Success") =>
    SellRequestsCarry(IF cycleHint = <<>> THEN "100%"
                      ELSE StrOfAmount(cycleHint[1]))

\* C22: in a cycle whose buy succeeded the sell request is token-denominated,
\* its amount is str of the amount_out field when the buy response has that
\* field with a value other than null, and "100%" exactly when the field is
\* absent or null.
C22_HintUnlessAbsentOrNull ==
  (Razor /\ cycleBuy = "Success") =>
    SellRequestsCarry(IF cycleHint \in {<<>>, <<JsonNull>>} THEN "100%"
                      ELSE StrOfAmount(cycleHint[1]))

C22_Witness ==
  /\ Razor /\ cycleBuy = "Success" /\ pc = <<"sell_token", "attempt">>
  /\ cycleHint = <<JsonNull>> /\ sent = 1 /\ lastReq.amount = "100%"
  /\ cycle_count = 1

\* C23: the request of every attempt is the payload of the call, whose
\* rpcEndpoint is the endpoint at current_rpc_index when it is sent; the
\* payload of a call that is at an attempt always names that endpoint; the
\* index changes by a rotation only, from one trade to the next it is kept.
C23_RequestEndpointIsCurrent ==
  /\ [][sent' = sent + 1 =>
          /\ lastReq' = payload
          /\ lastReq'.rpcEndpoint = get_current_rpc_endpoint(current_rpc_index)]_vars
  /\ [](pc[2] = "attempt" =>
          payload.rpcEndpoint = get_current_rpc_endpoint(current_rpc_index))
  /\ [][current_rpc_index' # current_rpc_index =>
          /\ rots' = rots + 1
          /\ current_rpc_index' = rotate_rpc_endpoint(current_rpc_index)]_vars

C23_Witness ==
  /\ Razor /\ pc = <<"sell_token", "attempt">> /\ cycle_count = 1
  /\ entry.index = 4 /\ sent = 2 /\ rots = 1 /\ current_rpc_index = 5
  /\ lastReq.rpcEndpoint = endpoints[5] /\ payload.rpcEndpoint = endpoints[6]

\* the cycles completed so far are counted and the session has not been
\* interrupted: the loop is at its condition, or was left by expiry
BetweenCycles ==
  /\ Razor
  /\ \/ pc = <<"run", "loop">>
     \/ pc \in {<<"run", "finally">>, <<"run", "done">>} /\ exitPath = "expiry"

\* C24: after k = cycle_count completed cycles of an uninterrupted run,
\* failed_trades is the number of those cycles that returned False, and
\* k <= total_trades <= 2k, a failed cycle making at most one trade fewer
\* than two.
C24_OneFailedTradePerFailedCycle ==
  BetweenCycles =>
    /\ failed_trades = cyclesFailed
    /\ cycle_count <= total_trades
    /\ total_trades <= 2 * cycle_count
    /\ 2 * cycle_count - cyclesFailed <= total_trades

C24_Witness ==
  /\ BetweenCycles /\ pc = <<"run", "loop">>
  /\ cycle_count = 2 /\ cyclesFailed = 1 /\ failed_trades = 1
  /\ total_trades = 3 /\ successful_trades = 2
====
